---- MODULE Spec2Model ----
(***************************************************************************)
(* A model of cookie-bakery-rs: the CookieStr offset/concrete string       *)
(* representation, the Cookie entity with its accessors and setters        *)
(* (src/src/cookie.rs), the builder (src/src/builder.rs), the attribute    *)
(* parser and the Expires date parser (src/src/parse.rs), and the Display  *)
(* serialisation.                                                          *)
(*                                                                         *)
(* Text is modelled as a sequence of one-character strings.  All modelled  *)
(* text is ASCII, so a character is one byte and Rust's byte offsets are   *)
(* the 0-based positions of the sequence.                                  *)
(*                                                                         *)
(* Three specifications:                                                     *)
(*   Spec       the life of one entity: created by Cookie::parse or by     *)
(*              CookieBuilder::new(..).build(), then mutated by the        *)
(*              setters, make_permanent, make_removal and into_owned;      *)
(*   SpecParse  the pure pipeline parse -> serialise -> parse over a       *)
(*              bounded set of input texts;                                *)
(*   SpecIndexed  CookieStr::indexed on two string slices given as address *)
(*              ranges of one memory, and the resolution of its result.    *)
(***************************************************************************)
EXTENDS Integers, Sequences, FiniteSets, TLC

VARIABLES
    cookie,     \* Spec: Option<Cookie>, the entity (None before creation or after a failed parse)
    prev,       \* Spec: history, the entity the last operation consumed when that was into_owned
    last,       \* Spec: history, the last operation and its text argument
    mutated,    \* Spec: history, the string fields a set_X has replaced
    steps,      \* Spec: number of operations applied after creation
    nv,         \* SpecParse: the input text up to its attributes
    attrs,      \* SpecParse: the attribute texts of the input, each following a ';'
    stage,      \* SpecParse: position in the pipeline
    first,      \* SpecParse: result of parsing the input
    text1,      \* SpecParse: serialisation of the first entity
    reparsed,   \* SpecParse: result of parsing text1
    needle,     \* SpecIndexed: the needle &str, an address range
    haystack,   \* SpecIndexed: the haystack &str, an address range
    found       \* SpecIndexed: the result of CookieStr::indexed(needle, haystack)

vars == <<cookie, prev, last, mutated, steps, nv, attrs, stage, first, text1, reparsed,
         needle, haystack, found>>

\* Text literals matched by parse_inner (src/src/parse.rs:58-101)
KEY_EXPIRES == <<"E", "x", "p", "i", "r", "e", "s">>
KEY_MAX_AGE == <<"M", "a", "x", "-", "A", "g", "e">>
KEY_DOMAIN == <<"D", "o", "m", "a", "i", "n">>
KEY_PATH == <<"P", "a", "t", "h">>
KEY_SECURE == <<"S", "e", "c", "u", "r", "e">>
KEY_HTTP_ONLY == <<"H", "t", "t", "p", "O", "n", "l", "y">>
KEY_SAME_SITE == <<"S", "a", "m", "e", "S", "i", "t", "e">>
STR_STRICT == <<"s", "t", "r", "i", "c", "t">>
STR_LAX == <<"l", "a", "x">>
STR_NONE == <<"n", "o", "n", "e">>
STR_GMT == <<"G", "M", "T">>

\* Text literals written by Display (src/src/cookie.rs:295-333)
OUT_EXPIRES == <<";", " ", "E", "x", "p", "i", "r", "e", "s", "=">>
OUT_GMT == <<" ", "G", "M", "T">>
OUT_MAX_AGE == <<";", " ", "M", "a", "x", "-", "A", "g", "e", "=">>
OUT_DOMAIN == <<";", " ", "D", "o", "m", "a", "i", "n", "=">>
OUT_PATH == <<";", " ", "P", "a", "t", "h", "=">>
OUT_SECURE == <<";", " ", "S", "e", "c", "u", "r", "e">>
OUT_HTTP_ONLY == <<";", " ", "H", "t", "t", "p", "O", "n", "l", "y">>
OUT_SAME_SITE == <<";", " ", "S", "a", "m", "e", "S", "i", "t", "e", "=">>

\* Decimal text of u64::MAX (src/src/parse.rs:78) and of 60*60*24*365*20 (src/src/cookie.rs:252-253)
U64_MAX_DIGITS == <<"1", "8", "4", "4", "6", "7", "4", "4", "0", "7", "3", "7", "0", "9", "5", "5", "1", "6", "1", "5">>
TWENTY_YEARS_SECS == <<"6", "3", "0", "7", "2", "0", "0", "0", "0">>

(***************************************************************************)
(* Option and text primitives of the Rust standard library, as used by     *)
(* the sources.                                                            *)
(***************************************************************************)
None == << >>
Some(x) == << x >>
IsSome(o) == o # None
Unwrap(o) == o[1]

\* The outcome of a panic (expect on None, a slice out of bounds) where a
\* text is expected; it is no text, its element is not a character.
Fatal == << "!panic" >>

\* char::is_whitespace, restricted to the modelled alphabet
WS == {" ", "\t"}

\* char::is_digit(10)
DigitChars == <<"0", "1", "2", "3", "4", "5", "6", "7", "8", "9">>
IsDigit(c) == \E k \in 1..10 : DigitChars[k] = c
DigitVal(c) == (CHOOSE k \in 1..10 : DigitChars[k] = c) - 1

\* u8::to_ascii_lowercase, the mapping behind eq_ignore_ascii_case
UpperChars == <<"A","B","C","D","E","F","G","H","I","J","K","L","M","N","O","P","Q","R","S","T","U","V","W","X","Y","Z">>
LowerChars == <<"a","b","c","d","e","f","g","h","i","j","k","l","m","n","o","p","q","r","s","t","u","v","w","x","y","z">>
ToAsciiLower(c) ==
    IF \E k \in 1..26 : UpperChars[k] = c
    THEN LowerChars[CHOOSE k \in 1..26 : UpperChars[k] = c]
    ELSE c
eq_ignore_ascii_case(a, b) ==
    /\ Len(a) = Len(b)
    /\ \A k \in 1..Len(a) : ToAsciiLower(a[k]) = ToAsciiLower(b[k])

\* &s[i..j]
Slice(s, i, j) == SubSeq(s, i + 1, j)

\* A sub-slice of a buffer is the range [lo, hi) of its offsets.
Range(lo, hi) == [lo |-> lo, hi |-> hi]
RangeText(s, r) == Slice(s, r.lo, r.hi)

SetMin(S) == CHOOSE x \in S : \A y \in S : x <= y
SetMax(S) == CHOOSE x \in S : \A y \in S : x >= y

\* str::find(ch) on the slice r of s: the offset of the first ch, if any
FindChar(s, r, ch) ==
    LET hits == {k \in r.lo..(r.hi - 1) : s[k + 1] = ch}
    IN  IF hits = {} THEN None ELSE Some(SetMin(hits))

\* str::find(pat) for a text pattern
FindText(s, r, pat) ==
    LET hits == {k \in r.lo..(r.hi - Len(pat)) : Slice(s, k, k + Len(pat)) = pat}
    IN  IF hits = {} THEN None ELSE Some(SetMin(hits))

\* str::trim on the slice r of s.  An all-whitespace slice trims to the
\* empty slice at its start (trim_matches leaves i = j = 0).
Trim(s, r) ==
    LET keep == {k \in r.lo..(r.hi - 1) : s[k + 1] \notin WS}
    IN  IF keep = {} THEN Range(r.lo, r.lo)
        ELSE Range(SetMin(keep), SetMax(keep) + 1)

\* str::split(ch): the pieces between the separators, as ranges of s
RECURSIVE SplitFrom(_, _, _, _)
SplitFrom(s, ch, lo, k) ==
    IF k >= Len(s) THEN << Range(lo, Len(s)) >>
    ELSE IF s[k + 1] = ch THEN << Range(lo, k) >> \o SplitFrom(s, ch, k + 1, k + 1)
    ELSE SplitFrom(s, ch, lo, k + 1)
Split(s, ch) == SplitFrom(s, ch, 0, 0)

\* str::split("GMT").next(): the piece before the first occurrence
SplitTextFirst(s, r, pat) ==
    LET at == FindText(s, r, pat)
    IN  IF IsSome(at) THEN Range(r.lo, Unwrap(at)) ELSE r

StartsWith(t, pre) == Len(t) >= Len(pre) /\ SubSeq(t, 1, Len(pre)) = pre

\* str::strip_prefix(".")
strip_prefix_dot(t) == IF StartsWith(t, << "." >>) THEN Some(Tail(t)) ELSE None

\* Option::or
OptionOr(a, b) == IF IsSome(a) THEN a ELSE b

RECURSIVE Concat(_)
Concat(ss) == IF ss = << >> THEN << >> ELSE Head(ss) \o Concat(Tail(ss))

(***************************************************************************)
(* Cow<str> and CookieStr (src/src/cookie.rs:9-62)                         *)
(***************************************************************************)
Borrowed(s) == [own |-> "Borrowed", str |-> s]
Owned(s) == [own |-> "Owned", str |-> s]

\* Cow::into_owned().into(): an owned copy of the same text
CowIntoOwned(cow) == Owned(cow.str)

Indexed(i, j) == [kind |-> "Indexed", i |-> i, j |-> j]
Concrete(cow) == [kind |-> "Concrete", cow |-> cow]

indexed_unbounded_end(needle_ptr, needle_len, haystack_ptr, haystack_len) ==
    IF needle_ptr < haystack_ptr THEN None
    ELSE Some(Indexed(needle_ptr - haystack_ptr, needle_ptr - haystack_ptr + needle_len))

\* CookieStr::indexed: buffers are address ranges (pointer, length)
indexed(needle_ptr, needle_len, haystack_ptr, haystack_len) ==
    IF needle_ptr < haystack_ptr THEN None
    ELSE IF (needle_ptr + needle_len) > (haystack_ptr + haystack_len) THEN None
    ELSE LET start == needle_ptr - haystack_ptr
             end == start + needle_len
         IN  Some(Indexed(start, end))

\* CookieStr::as_str; source is an Option<Cow>
as_str(self, source) ==
    IF self.kind = "Indexed"
    THEN IF source = None THEN Fatal
         ELSE IF self.i > self.j \/ self.j > Len(Unwrap(source).str) THEN Fatal
         ELSE Slice(Unwrap(source).str, self.i, self.j)
    ELSE self.cow.str

to_raw_str_any_source(self, source) ==
    IF self.kind = "Indexed"
    THEN IF self.i > self.j \/ self.j > Len(source.str) THEN Some(Fatal)
         ELSE Some(Slice(source.str, self.i, self.j))
    ELSE None

\* CookieStr::to_raw_str; source is a Cow
to_raw_str(self, source) ==
    IF self.kind = "Indexed"
    THEN IF source.own = "Borrowed"
         THEN IF self.i > self.j \/ self.j > Len(source.str) THEN Some(Fatal)
              ELSE Some(Slice(source.str, self.i, self.j))
         ELSE None
    ELSE None

CookieStr_into_owned_keeps_borrow(self) == self

\* CookieStr::into_owned
CookieStr_into_owned(self) ==
    IF self.kind = "Indexed" THEN Indexed(self.i, self.j)
    ELSE IF self.cow.own = "Owned" THEN Concrete(Owned(self.cow.str))
    ELSE Concrete(Owned(self.cow.str))

\* Option::map
MapOption(o, F(_)) == IF IsSome(o) THEN Some(F(Unwrap(o))) ELSE None

(***************************************************************************)
(* Expiration (src/src/expires.rs), SameSite (src/src/same_site.rs)        *)
(***************************************************************************)
Session == [kind |-> "Session"]
DateTimeExp(dt) == [kind |-> "DateTime", dt |-> dt]
SameSiteValues == {"Strict", "Lax", "None"}

(***************************************************************************)
(* Cookie (src/src/cookie.rs:64-293)                                       *)
(***************************************************************************)
Cookie(cookie_string, name_, val, expires_, max_age_, domain_, path_, secure_, http_only_, same_site_) ==
    [cookie_string |-> cookie_string, name |-> name_, val |-> val,
     expires |-> expires_, max_age |-> max_age_, domain |-> domain_, path |-> path_,
     secure |-> secure_, http_only |-> http_only_, same_site |-> same_site_]

name(self) == as_str(self.name, self.cookie_string)

name_raw(self) ==
    IF IsSome(self.cookie_string) THEN to_raw_str(self.name, Unwrap(self.cookie_string)) ELSE None

value(self) == as_str(self.val, self.cookie_string)

value_raw(self) ==
    IF IsSome(self.cookie_string) THEN to_raw_str(self.val, Unwrap(self.cookie_string)) ELSE None

expires(self) == self.expires
max_age(self) == self.max_age

domain(self) ==
    IF IsSome(self.domain)
    THEN LET d == as_str(Unwrap(self.domain), self.cookie_string)
         IN  OptionOr(strip_prefix_dot(d), Some(d))
    ELSE None

domain_raw_keeps_dot(self) ==
    IF IsSome(self.domain) /\ IsSome(self.cookie_string)
    THEN to_raw_str(Unwrap(self.domain), Unwrap(self.cookie_string))
    ELSE None

domain_raw(self) ==
    IF IsSome(self.domain) /\ IsSome(self.cookie_string)
    THEN LET raw == to_raw_str(Unwrap(self.domain), Unwrap(self.cookie_string))
         IN  IF IsSome(raw)
             THEN OptionOr(strip_prefix_dot(Unwrap(raw)), Some(Unwrap(raw)))
             ELSE None
    ELSE None

path(self) ==
    IF IsSome(self.path) THEN Some(as_str(Unwrap(self.path), self.cookie_string)) ELSE None

path_raw(self) ==
    IF IsSome(self.path) /\ IsSome(self.cookie_string)
    THEN to_raw_str(Unwrap(self.path), Unwrap(self.cookie_string))
    ELSE None

secure(self) == self.secure
http_only(self) == self.http_only
same_site(self) == self.same_site

\* The setters; a text argument arrives as a Cow (S: Into<Cow<'a, str>>).
set_name(self, cow) == [self EXCEPT !.name = Concrete(cow)]
set_value(self, cow) == [self EXCEPT !.val = Concrete(cow)]
set_expires(self, v) == [self EXCEPT !.expires = v]
set_max_age(self, v) == [self EXCEPT !.max_age = v]
unset_expiures(self) == [self EXCEPT !.expires = None]
set_domain_keeps_offset(self, cow) ==
    IF IsSome(self.domain) THEN self ELSE [self EXCEPT !.domain = Some(Concrete(cow))]
set_domain(self, cow) == [self EXCEPT !.domain = Some(Concrete(cow))]
unset_domain(self) == [self EXCEPT !.domain = None]
set_path(self, cow) == [self EXCEPT !.path = Some(Concrete(cow))]
unset_path(self) == [self EXCEPT !.path = None]
set_secure(self, v) == [self EXCEPT !.secure = v]
set_http_only(self, v) == [self EXCEPT !.http_only = v]
set_same_site(self, v) == [self EXCEPT !.same_site = v]

Cookie_into_owned_drops_source(self) ==
    [self EXCEPT !.cookie_string = None,
                 !.name = CookieStr_into_owned(self.name),
                 !.val = CookieStr_into_owned(self.val),
                 !.domain = MapOption(self.domain, CookieStr_into_owned),
                 !.path = MapOption(self.path, CookieStr_into_owned)]

\* Cookie::into_owned
Cookie_into_owned(self) ==
    Cookie(MapOption(self.cookie_string, CowIntoOwned),
           CookieStr_into_owned(self.name),
           CookieStr_into_owned(self.val),
           self.expires,
           self.max_age,
           MapOption(self.domain, CookieStr_into_owned),
           MapOption(self.path, CookieStr_into_owned),
           self.secure,
           self.http_only,
           self.same_site)

(***************************************************************************)
(* chrono, as called from src/src/parse.rs:122-136 (parse_from_str) and    *)
(* src/src/cookie.rs:256-273, 307 (day arithmetic, format).                *)
(***************************************************************************)
\* Weekdays are numbered from Monday = 0, months from January = 1.
WeekdayNames ==
    << <<"M", "o", "n">>,
       <<"T", "u", "e">>,
       <<"W", "e", "d">>,
       <<"T", "h", "u">>,
       <<"F", "r", "i">>,
       <<"S", "a", "t">>,
       <<"S", "u", "n">> >>
\* what follows the short name in the long weekday name
WeekdaySuffixes ==
    << <<"d", "a", "y">>,
       <<"s", "d", "a", "y">>,
       <<"n", "e", "s", "d", "a", "y">>,
       <<"r", "s", "d", "a", "y">>,
       <<"d", "a", "y">>,
       <<"u", "r", "d", "a", "y">>,
       <<"d", "a", "y">> >>
MonthNames ==
    << <<"J", "a", "n">>,
       <<"F", "e", "b">>,
       <<"M", "a", "r">>,
       <<"A", "p", "r">>,
       <<"M", "a", "y">>,
       <<"J", "u", "n">>,
       <<"J", "u", "l">>,
       <<"A", "u", "g">>,
       <<"S", "e", "p">>,
       <<"O", "c", "t">>,
       <<"N", "o", "v">>,
       <<"D", "e", "c">> >>

DateTime(y, mo, d, h, mi, s) ==
    [year |-> y, month |-> mo, day |-> d, hour |-> h, minute |-> mi, second |-> s]

IsLeapYear(y) == (y % 4 = 0 /\ y % 100 # 0) \/ y % 400 = 0
DaysInMonth(y, mo) ==
    IF mo = 2 THEN (IF IsLeapYear(y) THEN 29 ELSE 28)
    ELSE IF mo \in {4, 6, 9, 11} THEN 30 ELSE 31

\* Days since 1970-01-01 of a proleptic Gregorian date (year >= 1)
DaysFromCivil(y, mo, d) ==
    LET yy == IF mo <= 2 THEN y - 1 ELSE y
        era == yy \div 400
        yoe == yy - era * 400
        doy == (153 * (IF mo > 2 THEN mo - 3 ELSE mo + 9) + 2) \div 5 + d - 1
        doe == yoe * 365 + yoe \div 4 - yoe \div 100 + doy
    IN  era * 146097 + doe - 719468

CivilFromDays(days) ==
    LET z == days + 719468
        era == z \div 146097
        doe == z - era * 146097
        yoe == (doe - doe \div 1460 + doe \div 36524 - doe \div 146096) \div 365
        doy == doe - (365 * yoe + yoe \div 4 - yoe \div 100)
        mp == (5 * doy + 2) \div 153
        d == doy - (153 * mp + 2) \div 5 + 1
        mo == IF mp < 10 THEN mp + 3 ELSE mp - 9
        y == yoe + era * 400 + (IF mo <= 2 THEN 1 ELSE 0)
    IN  [year |-> y, month |-> mo, day |-> d]

\* Datelike::weekday, Monday = 0
Weekday(y, mo, d) == (DaysFromCivil(y, mo, d) + 719468 + 2) % 7

\* DateTime::checked_add_days / checked_sub_days (n < 0): None outside
\* chrono's representable years
WithDate(dt, c) ==
    IF c.year > 262142 \/ c.year < 1 THEN None
    ELSE Some([dt EXCEPT !.year = c.year, !.month = c.month, !.day = c.day])
checked_add_days(dt, n) ==
    WithDate(dt, CivilFromDays(DaysFromCivil(dt.year, dt.month, dt.day) + n))

\* DateTime::<Utc>::MAX_UTC
MAX_UTC == DateTime(262142, 12, 31, 23, 59, 59)

Pad2(n) == << DigitChars[((n \div 10) % 10) + 1], DigitChars[(n % 10) + 1] >>
Pad4(n) == Pad2(n \div 100) \o Pad2(n % 100)

\* DateTime::format("%a, %d %b %Y %H:%M:%S"), for years 0..9999
FormatRfc1123(dt) ==
    WeekdayNames[Weekday(dt.year, dt.month, dt.day) + 1] \o << ",", " " >>
    \o Pad2(dt.day) \o << " " >> \o MonthNames[dt.month] \o << " " >> \o Pad4(dt.year)
    \o << " " >> \o Pad2(dt.hour) \o << ":" >> \o Pad2(dt.minute) \o << ":" >> \o Pad2(dt.second)

\* The items a strftime format string is split into by StrftimeItems:
\* literals, whitespace, numeric fields (with their maximal width) and names.
Lit(s) == [t |-> "Lit", s |-> s, w |-> 0]
Space == [t |-> "Space", s |-> << >>, w |-> 0]
Num(field, w) == [t |-> "Num", s |-> << field >>, w |-> w]
ShortWeekdayName == [t |-> "ShortWeekday", s |-> << >>, w |-> 0]
LongWeekdayName == [t |-> "LongWeekday", s |-> << >>, w |-> 0]
ShortMonthName == [t |-> "ShortMonth", s |-> << >>, w |-> 0]

HMS == << Num("hour", 2), Lit(<< ":" >>), Num("minute", 2), Lit(<< ":" >>), Num("second", 2) >>

\* "%a, %d %b %Y %H:%M:%S GMT"
FMT1 == << ShortWeekdayName, Lit(<< "," >>), Space, Num("day", 2), Space, ShortMonthName, Space,
           Num("year", 4), Space >> \o HMS \o << Space, Lit(STR_GMT) >>
\* "%A, %d-%b-%y %H:%M:%S GMT"
FMT2 == << LongWeekdayName, Lit(<< "," >>), Space, Num("day", 2), Lit(<< "-" >>), ShortMonthName,
           Lit(<< "-" >>), Num("year_mod_100", 2), Space >> \o HMS \o << Space, Lit(STR_GMT) >>
\* "%a, %b %-d %H:%M:%S %-Y"
FMT3 == << ShortWeekdayName, Lit(<< "," >>), Space, ShortMonthName, Space, Num("day", 2), Space >>
        \o HMS \o << Space, Num("year", 4) >>
\* "%a, %d-%b-%-Y %H:%M:%S GMT"
FMT4 == << ShortWeekdayName, Lit(<< "," >>), Space, Num("day", 2), Lit(<< "-" >>), ShortMonthName,
           Lit(<< "-" >>), Num("year", 4), Space >> \o HMS \o << Space, Lit(STR_GMT) >>
\* "%a, %d %b %Y %H:%M:%S", the format of parse_date
FMT_RFC1123 == << ShortWeekdayName, Lit(<< "," >>), Space, Num("day", 2), Space, ShortMonthName, Space,
                 Num("year", 4), Space >> \o HMS

\* chrono::format::Parsed; -1 is an unset field, ok = FALSE a failed parse
ParsedNew ==
    [ok |-> TRUE, weekday |-> -1, day |-> -1, month |-> -1, year |-> -1, year_mod_100 |-> -1,
     hour |-> -1, minute |-> -1, second |-> -1]
ParsedErr == [ParsedNew EXCEPT !.ok = FALSE]

\* str::trim_start
RECURSIVE TrimStart(_)
TrimStart(t) == IF t # << >> /\ Head(t) \in WS THEN TrimStart(Tail(t)) ELSE t

Drop(t, n) == SubSeq(t, n + 1, Len(t))

\* scan::number(s, 1, max): how many leading digits are taken (at most max)
DigitRun(t, max) ==
    LET lens == {n \in 0..max : n <= Len(t) /\ \A k \in 1..n : IsDigit(t[k])}
    IN  SetMax(lens)

RECURSIVE DigitsToNat(_)
DigitsToNat(ds) ==
    IF ds = << >> THEN 0 ELSE 10 * DigitsToNat(SubSeq(ds, 1, Len(ds) - 1)) + DigitVal(ds[Len(ds)])

\* scan::short_weekday / scan::short_month0: a three-letter name, any case
NameIndex(t, names) ==
    LET hits == {k \in 1..Len(names) : Len(t) >= 3 /\ eq_ignore_ascii_case(SubSeq(t, 1, 3), names[k])}
    IN  IF hits = {} THEN 0 ELSE SetMin(hits)

SetField(p, field, v) ==
    CASE field = "day" -> [p EXCEPT !.day = v]
      [] field = "year" -> [p EXCEPT !.year = v]
      [] field = "year_mod_100" -> [p EXCEPT !.year_mod_100 = v]
      [] field = "hour" -> [p EXCEPT !.hour = v]
      [] field = "minute" -> [p EXCEPT !.minute = v]
      [] field = "second" -> [p EXCEPT !.second = v]

\* The result of matching one item: the fields parsed so far and the text left
ItemOk(p, rest) == [p |-> p, rest |-> rest]
ItemFail == [p |-> ParsedErr, rest |-> << >>]

\* a numeric item: scan::number after leading whitespace
NumItem(u, n, field, p) ==
    IF n = 0 THEN ItemFail
    ELSE ItemOk(SetField(p, field, DigitsToNat(SubSeq(u, 1, n))), Drop(u, n))

\* %a: scan::short_weekday, k the index of the matched name (0: none)
ShortWeekdayItem(t, k, p) ==
    IF k = 0 THEN ItemFail ELSE ItemOk([p EXCEPT !.weekday = k - 1], Drop(t, 3))

\* %A: scan::short_or_long_weekday, the long name's remainder is optional
LongWeekdayItem(t, k, p) ==
    IF k = 0 THEN ItemFail
    ELSE IF /\ Len(t) >= 3 + Len(WeekdaySuffixes[k])
            /\ eq_ignore_ascii_case(SubSeq(t, 4, 3 + Len(WeekdaySuffixes[k])), WeekdaySuffixes[k])
         THEN ItemOk([p EXCEPT !.weekday = k - 1], Drop(t, 3 + Len(WeekdaySuffixes[k])))
         ELSE ItemOk([p EXCEPT !.weekday = k - 1], Drop(t, 3))

\* %b: scan::short_month0
ShortMonthItem(t, k, p) ==
    IF k = 0 THEN ItemFail ELSE ItemOk([p EXCEPT !.month = k], Drop(t, 3))

\* One item of chrono::format::parse applied to the text t.
\* (A sign before a %Y year is outside the modelled inputs.)
ParseItem(t, it, p) ==
    CASE it.t = "Lit" -> IF StartsWith(t, it.s) THEN ItemOk(p, Drop(t, Len(it.s))) ELSE ItemFail
      [] it.t = "Space" -> ItemOk(p, TrimStart(t))
      [] it.t = "Num" -> NumItem(TrimStart(t), DigitRun(TrimStart(t), it.w), it.s[1], p)
      [] it.t = "ShortWeekday" -> ShortWeekdayItem(t, NameIndex(t, WeekdayNames), p)
      [] it.t = "LongWeekday" -> LongWeekdayItem(t, NameIndex(t, WeekdayNames), p)
      [] it.t = "ShortMonth" -> ShortMonthItem(t, NameIndex(t, MonthNames), p)

\* chrono::format::parse: consume the text item by item; an item that does
\* not match, or text left over after the last item, is an error.
RECURSIVE ParseItems(_, _, _)
ParseNext(r, items) == IF r.p.ok THEN ParseItems(r.rest, items, r.p) ELSE ParsedErr
ParseItems(t, items, p) ==
    IF items = << >> THEN (IF t = << >> THEN p ELSE ParsedErr)
    ELSE ParseNext(ParseItem(t, Head(items), p), Tail(items))

\* Parsed::to_naive_datetime_with_offset(0): the fields must make a valid
\* date and time, and a parsed weekday must be the date's weekday.
\* Result: Option<DateTime>
ResolveYear(p) ==
    IF p.year >= 0 THEN p.year
    ELSE IF p.year_mod_100 >= 0
         THEN p.year_mod_100 + (IF p.year_mod_100 < 70 THEN 2000 ELSE 1900)
         ELSE -1
ResolveSecond(p) == IF p.second >= 0 THEN p.second ELSE 0
ResolveFields(p, y, sec) ==
    IF /\ p.ok
       /\ y >= 1
       /\ p.month \in 1..12
       /\ p.day >= 1 /\ p.day <= DaysInMonth(y, p.month)
       /\ (p.weekday >= 0 => p.weekday = Weekday(y, p.month, p.day))
       /\ p.hour \in 0..23
       /\ p.minute \in 0..59
       /\ sec \in 0..60
    THEN Some(DateTime(y, p.month, p.day, p.hour, p.minute, sec))
    ELSE None
Resolve(p) == ResolveFields(p, ResolveYear(p), ResolveSecond(p))

\* NaiveDateTime::parse_from_str(text, fmt): Option<DateTime>
parse_from_str(text, fmt) == Resolve(ParseItems(text, fmt, ParsedNew))

(***************************************************************************)
(* The parser (src/src/parse.rs)                                           *)
(***************************************************************************)
\* ParseResult<Cookie>; Panic is a fatal abort (a failed expect)
Ok(c) == [tag |-> "Ok", cookie |-> Some(c), err |-> "-"]
Err(e) == [tag |-> "Err", cookie |-> None, err |-> e]
Panic == [tag |-> "Panic", cookie |-> None, err |-> "-"]

\* Result::or_else along a chain: the first success, None when all fail
FirstSome(os) ==
    LET hits == {k \in 1..Len(os) : IsSome(os[k])}
    IN  IF hits = {} THEN None ELSE os[SetMin(hits)]

\* The text the formats are matched against: str.split("GMT").next().trim()
date_text(s, r) == RangeText(s, Trim(s, SplitTextFirst(s, r, STR_GMT)))

\* parse_date_with_all_formats, on the slice r of s: Option<DateTime>,
\* None standing for Err(InvalidDate)
parse_date_with_all_formats(s, r) ==
    FirstSome(<< parse_from_str(date_text(s, r), FMT1),
                 parse_from_str(date_text(s, r), FMT2),
                 parse_from_str(date_text(s, r), FMT3),
                 parse_from_str(date_text(s, r), FMT4) >>)

\* A Duration is kept as the decimal text of its whole seconds (as_secs),
\* without leading zeros: u64 does not fit the model checker's integers.
DurationZero == << "0" >>

RECURSIVE StripLeadingZeros(_)
StripLeadingZeros(ds) ==
    IF Len(ds) > 1 /\ Head(ds) = "0" THEN StripLeadingZeros(Tail(ds)) ELSE ds

\* a > b for digit texts of the same length
DigitsGreater(a, b) ==
    \E k \in 1..Len(a) :
        /\ DigitVal(a[k]) > DigitVal(b[k])
        /\ \A m \in 1..(k - 1) : a[m] = b[m]

\* str::parse::<u64> of a text of decimal digits: None is Err (empty text,
\* or a number above u64::MAX)
parse_u64(ds) ==
    IF ds = << >> THEN None
    ELSE LET c == StripLeadingZeros(ds)
         IN  IF Len(c) > Len(U64_MAX_DIGITS)
                \/ (Len(c) = Len(U64_MAX_DIGITS) /\ DigitsGreater(c, U64_MAX_DIGITS))
             THEN None
             ELSE Some(c)

AllDigits(ds) == \A k \in 1..Len(ds) : IsDigit(ds[k])

\* The Max-Age arm of parse_inner after the sign is taken off: skip is the
\* `continue`, v the value assigned to cookie.max_age otherwise
max_age_value(is_negatove, digits) ==
    IF ~ AllDigits(digits) THEN [skip |-> TRUE, v |-> None]
    ELSE IF is_negatove THEN [skip |-> FALSE, v |-> Some(DurationZero)]
    ELSE [skip |-> FALSE, v |-> Some(Unwrap(OptionOr(parse_u64(digits), Some(U64_MAX_DIGITS))))]

\* The Max-Age arm of parse_inner
max_age_arm(text) ==
    IF StartsWith(text, << "-" >>) THEN max_age_value(TRUE, Drop(text, 1))
    ELSE max_age_value(FALSE, text)

\* The SameSite arm of parse_inner: the value assigned, None when the field is left alone
same_site_arm(text) ==
    IF eq_ignore_ascii_case(text, STR_STRICT) THEN Some("Strict")
    ELSE IF eq_ignore_ascii_case(text, STR_LAX) THEN Some("Lax")
    ELSE IF eq_ignore_ascii_case(text, STR_NONE) THEN Some("None")
    ELSE None

\* CookieStr::indexed(slice r of s, s), s at address s_ptr
indexed_slice(s, s_ptr, r) == indexed(s_ptr + r.lo, r.hi - r.lo, s_ptr, Len(s))

\* s.split(';')
attributes_of(s) == Split(s, ";")

\* The arms of the match on (key, val) in parse_inner; val is a slice of s
expires_arm(cookie_, date) ==
    IF IsSome(date) THEN Ok([cookie_ EXCEPT !.expires = Some(DateTimeExp(Unwrap(date)))])
    ELSE Err("InvalidDate")
max_age_set(cookie_, m) == IF m.skip THEN Ok(cookie_) ELSE Ok([cookie_ EXCEPT !.max_age = m.v])
domain_arm(cookie_, ix) ==
    IF IsSome(ix) THEN Ok([cookie_ EXCEPT !.domain = Some(Unwrap(ix))]) ELSE Panic
path_arm(cookie_, ix) ==
    IF IsSome(ix) THEN Ok([cookie_ EXCEPT !.path = Some(Unwrap(ix))]) ELSE Panic
same_site_set_strict(cookie_, ss) ==
    IF IsSome(ss) THEN Ok([cookie_ EXCEPT !.same_site = ss]) ELSE Err("InvalidSameSite")
same_site_set(cookie_, ss) == IF IsSome(ss) THEN Ok([cookie_ EXCEPT !.same_site = ss]) ELSE Ok(cookie_)

match_key_val(s, s_ptr, key, val, cookie_) ==
    IF key = KEY_EXPIRES /\ IsSome(val)
    THEN expires_arm(cookie_, parse_date_with_all_formats(s, Unwrap(val)))
    ELSE IF key = KEY_MAX_AGE /\ IsSome(val)
    THEN max_age_set(cookie_, max_age_arm(RangeText(s, Unwrap(val))))
    ELSE IF key = KEY_DOMAIN /\ IsSome(val)
    THEN domain_arm(cookie_, indexed_slice(s, s_ptr, Unwrap(val)))
    ELSE IF key = KEY_PATH /\ IsSome(val)
    THEN path_arm(cookie_, indexed_slice(s, s_ptr, Unwrap(val)))
    ELSE IF key = KEY_SECURE THEN Ok([cookie_ EXCEPT !.secure = Some(TRUE)])
    ELSE IF key = KEY_HTTP_ONLY THEN Ok([cookie_ EXCEPT !.http_only = Some(TRUE)])
    ELSE IF key = KEY_SAME_SITE /\ IsSome(val)
    THEN same_site_set(cookie_, same_site_arm(RangeText(s, Unwrap(val))))
    ELSE Ok(cookie_)

\* The split of an attribute on its first '=': the trimmed key text and the
\* trimmed value slice, if there is an '='
attr_key(s, attr, eq) ==
    IF IsSome(eq) THEN RangeText(s, Trim(s, Range(attr.lo, Unwrap(eq))))
    ELSE RangeText(s, Trim(s, attr))
attr_val(s, attr, eq) ==
    IF IsSome(eq) THEN Some(Trim(s, Range(Unwrap(eq) + 1, attr.hi))) ELSE None

\* One turn of the loop over the attributes after the name/value pair:
\* Ok(cookie) to go on, Err to return (the `?` on the date), Panic on a failed expect.
parse_attr(s, s_ptr, attr, cookie_) ==
    match_key_val(s, s_ptr, attr_key(s, attr, FindChar(s, attr, "=")),
                  attr_val(s, attr, FindChar(s, attr, "=")), cookie_)

\* for attr in attributes { ... }, from the k-th piece on
RECURSIVE parse_attrs(_, _, _, _, _)
parse_attrs_next(s, s_ptr, attributes, k, r) ==
    IF r.tag = "Ok" THEN parse_attrs(s, s_ptr, attributes, k + 1, Unwrap(r.cookie)) ELSE r
parse_attrs(s, s_ptr, attributes, k, cookie_) ==
    IF k > Len(attributes) THEN Ok(cookie_)
    ELSE parse_attrs_next(s, s_ptr, attributes, k, parse_attr(s, s_ptr, attributes[k], cookie_))

name_val_pair_last_eq(s, name_val) ==
    LET hits == {k \in name_val.lo..(name_val.hi - 1) : s[k + 1] = "="}
    IN  IF hits = {} THEN None
        ELSE Some([name |-> Trim(s, Range(name_val.lo, SetMax(hits))),
                   val |-> Trim(s, Range(SetMax(hits) + 1, name_val.hi))])

\* The split of the first piece on its first '=' (parse_inner): the trimmed
\* name and value slices, None when the piece holds no '='
name_val_pair(s, name_val) ==
    LET eq == FindChar(s, name_val, "=")
    IN  IF eq = None THEN None
        ELSE Some([name |-> Trim(s, Range(name_val.lo, Unwrap(eq))),
                   val |-> Trim(s, Range(Unwrap(eq) + 1, name_val.hi))])

\* The body of parse_inner once the first piece is split: name and val are slices of s
parse_inner_pair(s, s_ptr, attributes, name_r, val_r, name_ix, val_ix) ==
    IF name_r.lo = name_r.hi THEN Err("EmptyName")
    ELSE IF name_ix = None \/ val_ix = None THEN Panic
    ELSE parse_attrs(s, s_ptr, attributes, 2,
                     Cookie(None, Unwrap(name_ix), Unwrap(val_ix),
                            None, None, None, None, None, None, None))

parse_inner_split(s, s_ptr, attributes, pair) ==
    IF pair = None THEN Err("MissingPair")
    ELSE parse_inner_pair(s, s_ptr, attributes, Unwrap(pair).name, Unwrap(pair).val,
                          indexed_slice(s, s_ptr, Unwrap(pair).name),
                          indexed_slice(s, s_ptr, Unwrap(pair).val))

\* parse_inner(s), s at address s_ptr
parse_inner(s, s_ptr) ==
    parse_inner_split(s, s_ptr, attributes_of(s), name_val_pair(s, attributes_of(s)[1]))

\* cookie.cookie_string = Some(str); Ok(cookie)
attach_source(r, str) ==
    IF r.tag = "Ok" THEN Ok([Unwrap(r.cookie) EXCEPT !.cookie_string = Some(str)]) ELSE r

\* parse_cookie(s): str is s.into(), a Cow whose text lies at address s_ptr
parse_cookie(str, s_ptr) == attach_source(parse_inner(str.str, s_ptr), str)

\* Cookie::parse(str: &'a str): the text is borrowed
Cookie_parse(s, s_ptr) == parse_cookie(Borrowed(s), s_ptr)

(***************************************************************************)
(* The builder (src/src/builder.rs)                                        *)
(***************************************************************************)
\* CookieBuilder::new(name, val).build(); both are &'a str
CookieBuilder_new(name_, val) ==
    Cookie(None, Concrete(Borrowed(name_)), Concrete(Borrowed(val)),
           None, None, None, None, None, None, None)

(***************************************************************************)
(* make_permanent, make_removal and Display (src/src/cookie.rs:251-333)    *)
(***************************************************************************)
\* Duration::from_secs(60 * 60 * 24 * twenty_years), with twenty_years = 365 * 20
twenty_years == 365 * 20

\* make_permanent, with now the value of Utc::now()
make_permanent(self, now) ==
    set_expires(set_max_age(self, Some(TWENTY_YEARS_SECS)),
                Some(DateTimeExp(Unwrap(OptionOr(checked_add_days(now, twenty_years), Some(MAX_UTC))))))

\* make_removal, with now the value of Utc::now(); the expect cannot fail
\* for a clock after year 1
make_removal(self, now) ==
    set_expires(set_max_age(set_value(self, Borrowed(<< >>)), Some(DurationZero)),
                Some(DateTimeExp(Unwrap(checked_add_days(now, 0 - 365)))))

\* {:?} of a SameSite
SameSiteDebug(v) ==
    CASE v = "Strict" -> << "S", "t", "r", "i", "c", "t" >>
      [] v = "Lax" -> << "L", "a", "x" >>
      [] v = "None" -> << "N", "o", "n", "e" >>

\* The write! calls of <Cookie as Display>::fmt, in order
fmt_pair(self) ==
    as_str(self.name, self.cookie_string) \o << "=" >> \o as_str(self.val, self.cookie_string)
fmt_expires(self) ==
    IF IsSome(self.expires) /\ Unwrap(self.expires).kind = "DateTime"
    THEN OUT_EXPIRES \o FormatRfc1123(Unwrap(self.expires).dt) \o OUT_GMT
    ELSE << >>
fmt_max_age(self) ==
    IF IsSome(self.max_age) THEN OUT_MAX_AGE \o Unwrap(self.max_age) ELSE << >>
fmt_domain(self) ==
    IF IsSome(self.domain) THEN OUT_DOMAIN \o as_str(Unwrap(self.domain), self.cookie_string) ELSE << >>
fmt_path(self) ==
    IF IsSome(self.path) THEN OUT_PATH \o as_str(Unwrap(self.path), self.cookie_string) ELSE << >>
fmt_secure_writes_false(self) == IF IsSome(self.secure) THEN OUT_SECURE ELSE << >>
fmt_secure(self) == IF self.secure = Some(TRUE) THEN OUT_SECURE ELSE << >>
fmt_http_only(self) == IF self.http_only = Some(TRUE) THEN OUT_HTTP_ONLY ELSE << >>
fmt_same_site(self) ==
    IF IsSome(self.same_site) THEN OUT_SAME_SITE \o SameSiteDebug(Unwrap(self.same_site)) ELSE << >>

\* Whether an as_str of fmt panics: an Indexed field without its source
fmt_panics(self) ==
    \/ as_str(self.name, self.cookie_string) = Fatal
    \/ as_str(self.val, self.cookie_string) = Fatal
    \/ IsSome(self.domain) /\ as_str(Unwrap(self.domain), self.cookie_string) = Fatal
    \/ IsSome(self.path) /\ as_str(Unwrap(self.path), self.cookie_string) = Fatal

\* <Cookie as Display>::fmt: the text written, or Fatal when an as_str panics
fmt(self) ==
    IF fmt_panics(self) THEN Fatal
    ELSE fmt_pair(self) \o fmt_expires(self) \o fmt_max_age(self) \o fmt_domain(self)
         \o fmt_path(self) \o fmt_secure(self) \o fmt_http_only(self) \o fmt_same_site(self)

(***************************************************************************)
(* The inputs the operations are applied to                                *)
(***************************************************************************)
\* The RFC-1123 dates of tests::parse_valid with the instants the test expects (src/src/parse.rs:155-176)
Rfc1123Samples ==
    { [text |-> <<"T", "u", "e", ",", " ", "2", "1", " ", "O", "c", "t", " ", "2", "0", "2", "5", " ", "0", "7", ":", "2", "8", ":", "0", "0", " ", "G", "M", "T">>,
       dt |-> DateTime(2025, 10, 21, 7, 28, 0)],
      [text |-> <<"M", "o", "n", ",", " ", "1", "4", " ", "J", "u", "n", " ", "2", "0", "2", "7", " ", "1", "2", ":", "0", "0", ":", "0", "0", " ", "G", "M", "T">>,
       dt |-> DateTime(2027, 6, 14, 12, 0, 0)] }

\* Attribute texts, each put after a ';' of the input
AttrTexts ==
    { <<" ", "E", "x", "p", "i", "r", "e", "s", "=", "T", "u", "e", ",", " ", "2", "1", " ", "O", "c", "t", " ", "2", "0", "2", "5", " ", "0", "7", ":", "2", "8", ":", "0", "0", " ", "G", "M", "T">>,
      <<" ", "E", "x", "p", "i", "r", "e", "s", "=", "M", "o", "n", ",", " ", "1", "4", " ", "J", "u", "n", " ", "2", "0", "2", "7", " ", "1", "2", ":", "0", "0", ":", "0", "0", " ", "G", "M", "T">>,
      <<" ", "E", "x", "p", "i", "r", "e", "s", "=", "T", "u", "e", ",", " ", "O", "c", "t", " ", "2", "1", " ", "0", "7", ":", "2", "8", ":", "0", "0", " ", "2", "0", "2", "5">>,
      <<" ", "E", "x", "p", "i", "r", "e", "s", "=", "W", "e", "d", ",", " ", "O", "c", "t", " ", "2", "1", " ", "0", "7", ":", "2", "8", ":", "0", "0", " ", "2", "0", "2", "5">>,
      <<" ", "E", "x", "p", "i", "r", "e", "s">>,
      <<" ", "M", "a", "x", "-", "A", "g", "e", "=", "3", "6", "0", "0">>,
      <<" ", "M", "a", "x", "-", "A", "g", "e", "=", "-", "1", "0", "0">>,
      <<" ", "M", "a", "x", "-", "A", "g", "e", "=", "a", "b", "c">>,
      <<" ", "M", "a", "x", "-", "A", "g", "e", "=">>,
      <<" ", "M", "a", "x", "-", "A", "g", "e", "=", "-">>,
      <<" ", "M", "a", "x", "-", "A", "g", "e", "=", "9", "9", "9", "9", "9", "9", "9", "9", "9", "9", "9", "9", "9", "9", "9", "9", "9", "9", "9", "9">>,
      <<" ", "M", "a", "x", "-", "A", "g", "e", "=", "0", "0", "7">>,
      <<" ", "D", "o", "m", "a", "i", "n", "=", ".", "e", "x", ".", "c", "o", "m">>,
      <<" ", "D", "o", "m", "a", "i", "n", "=", "e", "x", ".", "c", "o", "m">>,
      <<" ", "D", "o", "m", "a", "i", "n", "=", ".", ".", "x">>,
      <<" ", "P", "a", "t", "h", "=", "/">>,
      <<" ", "S", "e", "c", "u", "r", "e">>,
      <<"H", "t", "t", "p", "O", "n", "l", "y", "=", "1">>,
      <<" ", "S", "a", "m", "e", "S", "i", "t", "e", "=", "S", "t", "r", "i", "c", "t">>,
      <<" ", "S", "a", "m", "e", "S", "i", "t", "e", "=", "l", "a", "x">>,
      <<" ", "S", "a", "m", "e", "S", "i", "t", "e", "=", "f", "o", "o">>,
      <<" ", "F", "o", "o", "=", "B", "a", "r">>,
      <<" ", "s", "e", "c", "u", "r", "e">> }

\* Name/value pairs the attribute texts are appended to
NameVals ==
    { <<"a", "=", "b">>,
      <<" ", "k", " ", "=", " ", "v", "=", "w", " ">> }

\* The characters of the exhaustively enumerated short inputs
Alphabet == {"a", "=", ";", " "}

\* Spec: the texts given to Cookie::parse
LifeTexts ==
    { <<"s", "i", "d", "=", "a", "b", "c", ";", " ", "D", "o", "m", "a", "i", "n", "=", ".", "e", "x", ".", "c", "o", "m", ";", " ", "P", "a", "t", "h", "=", "/", ";", " ", "S", "e", "c", "u", "r", "e">>,
      <<"a", "=", "b", ";", " ", "E", "x", "p", "i", "r", "e", "s", "=", "T", "u", "e", ",", " ", "O", "c", "t", " ", "2", "1", " ", "0", "7", ":", "2", "8", ":", "0", "0", " ", "2", "0", "2", "5", ";", " ", "M", "a", "x", "-", "A", "g", "e", "=", "6", "0", ";", " ", "H", "t", "t", "p", "O", "n", "l", "y", ";", " ", "S", "a", "m", "e", "S", "i", "t", "e", "=", "l", "a", "x">>,
      <<" ", "k", " ", "=", " ", "v", " ">>,
      <<"n", "o", "v", "a", "l", "u", "e">> }

\* Spec: the texts given to CookieBuilder::new and to the setters, as &str (borrowed) or String (owned)
BuildNames == { << "n" >> }
BuildVals == { << "v" >>, << >> }
SetCows == { Borrowed(<< "x" >>), Owned(<< ".", "d" >>) }
SetExpirations == { None, Some(Session), Some(DateTimeExp(DateTime(2026, 1, 1, 23, 59, 59))) }
SetDurations == { None, Some(DurationZero), Some(<< "6", "0" >>) }
SetBools == { None, Some(TRUE), Some(FALSE) }
SetSameSites == { None } \cup { Some(v) : v \in SameSiteValues }
\* the values Utc::now() takes
Nows == { DateTime(2025, 10, 21, 7, 28, 0), DateTime(2024, 2, 29, 23, 59, 59) }
\* the addresses the parsed buffer lies at
Addrs == { 4096 }

\* the address the memory of SpecIndexed starts at
MemBase == CHOOSE p \in Addrs : TRUE
\* Bounds of the model
MemLen == 5
MaxSteps == 3
MaxLen == 4
MaxAttrs == 2

(***************************************************************************)
(* Spec: the life of one entity                                            *)
(***************************************************************************)
StringFields == {"name", "value", "domain", "path"}
NoResult == [tag |-> "None", cookie |-> None, err |-> "-"]
NoOp == [op |-> "none", arg |-> << >>]

lifeVars == <<cookie, prev, last, mutated, steps>>
parseVars == <<nv, attrs, stage, first, text1, reparsed>>
indexVars == <<needle, haystack, found>>
\* a &str as an address range; no call of indexed made yet
NoStr == [ptr |-> 0, len |-> 0]
NotCalled == [called |-> FALSE, result |-> None]
IndexIdle == needle = NoStr /\ haystack = NoStr /\ found = NotCalled

ParseIdle ==
    /\ nv = << >> /\ attrs = << >> /\ stage = "idle"
    /\ first = NoResult /\ text1 = << >> /\ reparsed = NoResult

LifeIdle ==
    /\ cookie = None /\ prev = None /\ last = NoOp /\ mutated = {} /\ steps = 0

Init == LifeIdle /\ ParseIdle /\ IndexIdle

\* let cookie = Cookie::parse(s): an entity on success, none on failure
Parse(s, s_ptr) ==
    /\ cookie = None /\ last = NoOp
    /\ cookie' = Cookie_parse(s, s_ptr).cookie
    /\ last' = [op |-> "parse", arg |-> s]
    /\ UNCHANGED <<prev, mutated, steps>>
    /\ UNCHANGED parseVars
    /\ UNCHANGED indexVars

\* let cookie = CookieBuilder::new(n, v).build()
Build(n, v) ==
    /\ cookie = None /\ last = NoOp
    /\ cookie' = Some(CookieBuilder_new(n, v))
    /\ last' = [op |-> "build", arg |-> n]
    /\ UNCHANGED <<prev, mutated, steps>>
    /\ UNCHANGED parseVars
    /\ UNCHANGED indexVars

\* An operation on the entity: its result replaces the entity
Apply(op, arg, result, fields) ==
    /\ cookie # None
    /\ steps < MaxSteps
    /\ cookie' = Some(result)
    /\ prev' = IF op = "into_owned" THEN cookie ELSE None
    /\ last' = [op |-> op, arg |-> arg]
    /\ mutated' = mutated \cup fields
    /\ steps' = steps + 1
    /\ UNCHANGED parseVars
    /\ UNCHANGED indexVars

Self == Unwrap(cookie)

SetName(c) == Apply("set_name", c.str, set_name(Self, c), {"name"})
SetValue(c) == Apply("set_value", c.str, set_value(Self, c), {"value"})
SetExpires(e) == Apply("set_expires", << >>, set_expires(Self, e), {})
SetMaxAge(d) == Apply("set_max_age", << >>, set_max_age(Self, d), {})
UnsetExpires == Apply("unset_expiures", << >>, unset_expiures(Self), {})
SetDomain(c) == Apply("set_domain", c.str, set_domain(Self, c), {"domain"})
UnsetDomain == Apply("unset_domain", << >>, unset_domain(Self), {})
SetPath(c) == Apply("set_path", c.str, set_path(Self, c), {"path"})
UnsetPath == Apply("unset_path", << >>, unset_path(Self), {})
SetSecure(b) == Apply("set_secure", << >>, set_secure(Self, b), {})
SetHttpOnly(b) == Apply("set_http_only", << >>, set_http_only(Self, b), {})
SetSameSite(v) == Apply("set_same_site", << >>, set_same_site(Self, v), {})
MakePermanent(now) == Apply("make_permanent", << >>, make_permanent(Self, now), {})
MakeRemoval(now) == Apply("make_removal", << >>, make_removal(Self, now), {"value"})
IntoOwned == Apply("into_owned", << >>, Cookie_into_owned(Self), {})

Next ==
    \/ \E s \in LifeTexts, p \in Addrs : Parse(s, p)
    \/ \E n \in BuildNames, v \in BuildVals : Build(n, v)
    \/ \E c \in SetCows : SetName(c)
    \/ \E c \in SetCows : SetValue(c)
    \/ \E e \in SetExpirations : SetExpires(e)
    \/ \E d \in SetDurations : SetMaxAge(d)
    \/ UnsetExpires
    \/ \E c \in SetCows : SetDomain(c)
    \/ UnsetDomain
    \/ \E c \in SetCows : SetPath(c)
    \/ UnsetPath
    \/ \E b \in SetBools : SetSecure(b)
    \/ \E b \in SetBools : SetHttpOnly(b)
    \/ \E v \in SetSameSites : SetSameSite(v)
    \/ \E now \in Nows : MakePermanent(now)
    \/ \E now \in Nows : MakeRemoval(now)
    \/ IntoOwned

Spec == Init /\ [][Next]_vars

(***************************************************************************)
(* SpecParse: parse, serialise, parse again                                *)
(***************************************************************************)
ShortTexts == UNION { [1..n -> Alphabet] : n \in 0..MaxLen }
AttrSeqs == UNION { [1..n -> AttrTexts] : n \in 0..MaxAttrs }

\* The text of an input: the pair text, then each attribute after a ';'
JoinInput(pair, as) == pair \o Concat([k \in 1..Len(as) |-> << ";" >> \o as[k]])
InputText == JoinInput(nv, attrs)

InitParse ==
    /\ LifeIdle
    /\ IndexIdle
    /\ \/ nv \in NameVals /\ attrs \in AttrSeqs
       \/ nv \in ShortTexts /\ attrs = << >>
    /\ stage = "input"
    /\ first = NoResult /\ text1 = << >> /\ reparsed = NoResult

\* first = Cookie::parse(input)
DoParse(s_ptr) ==
    /\ stage = "input"
    /\ first' = Cookie_parse(InputText, s_ptr)
    /\ stage' = "parsed"
    /\ UNCHANGED <<nv, attrs, text1, reparsed>>
    /\ UNCHANGED lifeVars
    /\ UNCHANGED indexVars

\* text1 = first.to_string()
DoSerialize ==
    /\ stage = "parsed" /\ first.tag = "Ok"
    /\ text1' = fmt(Unwrap(first.cookie))
    /\ stage' = "serialized"
    /\ UNCHANGED <<nv, attrs, first, reparsed>>
    /\ UNCHANGED lifeVars
    /\ UNCHANGED indexVars

\* reparsed = Cookie::parse(text1)
DoReparse(s_ptr) ==
    /\ stage = "serialized" /\ text1 # Fatal
    /\ reparsed' = Cookie_parse(text1, s_ptr)
    /\ stage' = "reparsed"
    /\ UNCHANGED <<nv, attrs, first, text1>>
    /\ UNCHANGED lifeVars
    /\ UNCHANGED indexVars

NextParse ==
    \/ \E p \in Addrs : DoParse(p)
    \/ DoSerialize
    \/ \E p \in Addrs : DoReparse(p)

SpecParse == InitParse /\ [][NextParse]_vars


(***************************************************************************)
(* SpecIndexed: CookieStr::indexed on address ranges                       *)
(***************************************************************************)

\* The memory the two slices lie in: MemLen bytes from MemBase on, holding
\* a text that repeats, so that equal texts lie at different addresses
MemByte(a) == IF (a - MemBase) % 2 = 0 THEN "a" ELSE "b"
\* every &str of that memory: pointer and length
MemStrs ==
    { x \in [ptr : MemBase..(MemBase + MemLen), len : 0..MemLen] :
          x.ptr + x.len <= MemBase + MemLen }
\* the text of a &str: the bytes at its addresses
StrText(x) == [k \in 1..x.len |-> MemByte(x.ptr + k - 1)]

InitIndexed ==
    /\ LifeIdle
    /\ ParseIdle
    /\ needle \in MemStrs
    /\ haystack \in MemStrs
    /\ found = NotCalled

\* found = CookieStr::indexed(needle, haystack)
DoIndexed ==
    /\ found = NotCalled
    /\ found' = [called |-> TRUE,
                  result |-> indexed(needle.ptr, needle.len, haystack.ptr, haystack.len)]
    /\ UNCHANGED <<needle, haystack>>
    /\ UNCHANGED lifeVars
    /\ UNCHANGED parseVars

NextIndexed == DoIndexed

SpecIndexed == InitIndexed /\ [][NextIndexed]_vars
(***************************************************************************)
(* The claims                                                              *)
(***************************************************************************)
\* The string fields of an entity that are present, as CookieStr values
FieldStrs(c) ==
    {c.name, c.val} \cup (IF IsSome(c.domain) THEN {Unwrap(c.domain)} ELSE {})
                    \cup (IF IsSome(c.path) THEN {Unwrap(c.path)} ELSE {})
OffsetFields(c) == {f \in FieldStrs(c) : f.kind = "Indexed"}
ConcreteFields(c) == {f \in FieldStrs(c) : f.kind = "Concrete"}

\* C1: in every state reachable by creating an entity (Cookie::parse or
\* CookieBuilder::new(..).build()) and applying setters, make_permanent,
\* make_removal and into_owned, every field that holds an Offset comes with a
\* present source buffer at least as long as the range's end, so the
\* accessors and the serialisation never panic.
C1_OffsetHasSource ==
    IsSome(cookie) =>
        /\ \A f \in OffsetFields(Self) :
               /\ IsSome(Self.cookie_string)
               /\ f.i <= f.j
               /\ f.j <= Len(Unwrap(Self.cookie_string).str)
        /\ name(Self) # Fatal
        /\ value(Self) # Fatal
        /\ domain(Self) # Some(Fatal)
        /\ path(Self) # Some(Fatal)
        /\ fmt(Self) # Fatal

\* C1 witness: a parsed entity that still holds Offset fields after mutation and into_owned
C1_Witness ==
    /\ IsSome(cookie)
    /\ last.op = "into_owned"
    /\ steps >= 2
    /\ Self.name.kind = "Indexed"
    /\ IsSome(Self.domain) /\ Unwrap(Self.domain).kind = "Indexed"

\* The field X of an entity, as an Option<CookieStr>
FieldOf(c, X) ==
    CASE X = "name" -> Some(c.name)
      [] X = "value" -> Some(c.val)
      [] X = "domain" -> c.domain
      [] X = "path" -> c.path
RawOf(c, X) ==
    CASE X = "name" -> name_raw(c)
      [] X = "value" -> value_raw(c)
      [] X = "domain" -> domain_raw(c)
      [] X = "path" -> path_raw(c)
SetterOf(X) ==
    CASE X = "name" -> "set_name"
      [] X = "value" -> "set_value"
      [] X = "domain" -> "set_domain"
      [] X = "path" -> "set_path"

\* C2: immediately after set_X(s) the field X holds a Concrete value equal to
\* s, never an Offset, and X_raw() is "not available"; X_raw() stays "not
\* available" through any later setters and into_owned.
C2_SetterMakesConcrete ==
    IsSome(cookie) =>
        \A X \in StringFields :
            /\ last.op = SetterOf(X) =>
                   /\ IsSome(FieldOf(Self, X))
                   /\ Unwrap(FieldOf(Self, X)).kind = "Concrete"
                   /\ Unwrap(FieldOf(Self, X)).cow.str = last.arg
                   /\ RawOf(Self, X) = None
            /\ X \in mutated => RawOf(Self, X) = None

\* C2 witness: a parsed entity whose domain was set, then another operation
\* applied; name_raw() is still available, domain_raw() is not
C2_Witness ==
    /\ IsSome(cookie)
    /\ "domain" \in mutated
    /\ last.op \notin {"set_domain", "parse", "build"}
    /\ IsSome(Self.domain)
    /\ name_raw(Self) # None
    /\ domain_raw(Self) = None

\* The Domain attribute texts of AttrTexts with the value each captures
DomainSamples ==
    { [attr |-> <<" ", "D", "o", "m", "a", "i", "n", "=", ".", "e", "x", ".", "c", "o", "m">>,
       captured |-> <<".", "e", "x", ".", "c", "o", "m">>],
      [attr |-> <<" ", "D", "o", "m", "a", "i", "n", "=", "e", "x", ".", "c", "o", "m">>,
       captured |-> <<"e", "x", ".", "c", "o", "m">>],
      [attr |-> <<" ", "D", "o", "m", "a", "i", "n", "=", ".", ".", "x">>,
       captured |-> <<".", ".", "x">>] }
DomainAttrAt == {k \in 1..Len(attrs) : \E d \in DomainSamples : d.attr = attrs[k]}
\* the value the last Domain attribute of the input captures
CapturedDomain == (CHOOSE d \in DomainSamples : d.attr = attrs[SetMax(DomainAttrAt)]).captured
WithoutOneDot(t) == IF t # << >> /\ t[1] = "." THEN SubSeq(t, 2, Len(t)) ELSE t
ParsedWithDomain == stage # "input" /\ first.tag = "Ok" /\ DomainAttrAt # {}
First == Unwrap(first.cookie)

\* C3 as stated: for a cookie parsed from borrowed text, domain() is the
\* captured Domain value without one leading dot, and domain_raw() is the
\* value exactly as captured, dot included.
C3_Original ==
    ParsedWithDomain =>
        /\ domain(First) = Some(WithoutOneDot(CapturedDomain))
        /\ domain_raw(First) = Some(CapturedDomain)

\* C3 as amended: domain() and domain_raw() both return the captured value
\* without one leading dot (no more than one); the dot stays in the stored
\* slice, the text the field refers to.
C3_DomainAccessors ==
    ParsedWithDomain =>
        /\ domain(First) = Some(WithoutOneDot(CapturedDomain))
        /\ domain_raw(First) = Some(WithoutOneDot(CapturedDomain))
        /\ as_str(Unwrap(First.domain), First.cookie_string) = CapturedDomain

\* C3 witness: a parsed cookie whose captured domain begins with two dots
C3_Witness ==
    /\ ParsedWithDomain
    /\ CapturedDomain = <<".", ".", "x">>
    /\ domain_raw(First) = Some(<<".", "x">>)

\* C4 as stated: after into_owned no string field holds an Offset.
C4_Original ==
    (IsSome(cookie) /\ last.op = "into_owned") => OffsetFields(Self) = {}

Before == Unwrap(prev)
OwnedCopyOf(f) == IF f.kind = "Indexed" THEN f ELSE Concrete(Owned(f.cow.str))
OwnedCopyOfOption(o) == IF IsSome(o) THEN Some(OwnedCopyOf(Unwrap(o))) ELSE None

\* C4 as amended: after into_owned every Concrete field is an owned copy of
\* its value and the retained source buffer, if any, is an owned clone with
\* the same text; a field that was an Offset stays an Offset with the same
\* range, which resolves against the cloned buffer to the same text.  The
\* result borrows nothing.
C4_IntoOwned ==
    (IsSome(cookie) /\ last.op = "into_owned") =>
        /\ Self.name = OwnedCopyOf(Before.name)
        /\ Self.val = OwnedCopyOf(Before.val)
        /\ Self.domain = OwnedCopyOfOption(Before.domain)
        /\ Self.path = OwnedCopyOfOption(Before.path)
        /\ IsSome(Self.cookie_string) = IsSome(Before.cookie_string)
        /\ IsSome(Self.cookie_string) =>
               Unwrap(Self.cookie_string) = Owned(Unwrap(Before.cookie_string).str)
        /\ \A f \in ConcreteFields(Self) : f.cow.own = "Owned"
        /\ name(Self) = name(Before) /\ value(Self) = value(Before)
        /\ domain(Self) = domain(Before) /\ path(Self) = path(Before)

\* C4 witness: into_owned of an entity with an Offset field, a borrowed
\* Concrete field and a borrowed source buffer
C4_Witness ==
    /\ IsSome(cookie) /\ last.op = "into_owned"
    /\ OffsetFields(Before) # {}
    /\ \E f \in ConcreteFields(Before) : f.cow.own = "Borrowed"
    /\ IsSome(Before.cookie_string) /\ Unwrap(Before.cookie_string).own = "Borrowed"


\* str::trim_end and str::trim, on texts
RECURSIVE TrimEnd(_)
TrimEnd(t) == IF t # << >> /\ t[Len(t)] \in WS THEN TrimEnd(SubSeq(t, 1, Len(t) - 1)) ELSE t
Trimmed(t) == TrimEnd(TrimStart(t))

\* positions (from 1) of the '=' characters of a text
EqAt(t) == {k \in 1..Len(t) : t[k] = "="}
\* position of the first ';' after position e, one past the end when there is none
NextSemi(t, e) ==
    IF \E k \in (e + 1)..Len(t) : t[k] = ";"
    THEN SetMin({k \in (e + 1)..Len(t) : t[k] = ";"})
    ELSE Len(t) + 1
\* the text before the first ';'
FirstPiece(t) == SubSeq(t, 1, NextSemi(t, 0) - 1)

\* C5 as stated: parse fails with MissingPair exactly when the input holds
\* no '='; otherwise name() is the trimmed text before the input's first '='
\* (EmptyName if that is empty) and value() the trimmed text from there to
\* the next ';' or the end.
C5_Original ==
    stage # "input" =>
        /\ (first.err = "MissingPair") <=> (EqAt(InputText) = {})
        /\ EqAt(InputText) # {} =>
               /\ (first.err = "EmptyName") <=>
                      (Trimmed(SubSeq(InputText, 1, SetMin(EqAt(InputText)) - 1)) = << >>)
               /\ first.tag = "Ok" =>
                      /\ name(First) = Trimmed(SubSeq(InputText, 1, SetMin(EqAt(InputText)) - 1))
                      /\ value(First) = Trimmed(SubSeq(InputText, SetMin(EqAt(InputText)) + 1,
                                                       NextSemi(InputText, SetMin(EqAt(InputText))) - 1))

\* the name and the value the first piece p holds around its first '='
PieceName(p) == Trimmed(SubSeq(p, 1, SetMin(EqAt(p)) - 1))
PieceValue(p) == Trimmed(SubSeq(p, SetMin(EqAt(p)) + 1, Len(p)))

\* C5 as amended: the split is on the first '=' of the input's first piece
\* (the text before the first ';', the whole input when there is none):
\* MissingPair exactly when that piece holds no '='; otherwise EmptyName
\* exactly when the trimmed text before that '=' is empty, and on success
\* name() is that text and value() the trimmed rest of the piece, further
\* '=' characters included.
C5_SplitFirstPiece ==
    stage # "input" =>
        /\ (first.err = "MissingPair") <=> (EqAt(FirstPiece(InputText)) = {})
        /\ EqAt(FirstPiece(InputText)) # {} =>
               /\ (first.err = "EmptyName") <=> (PieceName(FirstPiece(InputText)) = << >>)
               /\ first.tag = "Ok" =>
                      /\ name(First) = PieceName(FirstPiece(InputText))
                      /\ value(First) = PieceValue(FirstPiece(InputText))

\* C5 witness: a parsed input whose value holds a further '=' and whose
\* name and value were trimmed
C5_Witness ==
    /\ stage = "parsed" /\ first.tag = "Ok"
    /\ name(First) = << "k" >>
    /\ value(First) = << "v", "=", "w" >>
    /\ attrs # << >>

\* The key of an attribute text, and its value when it has an '='
AttrKey(a) == IF EqAt(a) = {} THEN Trimmed(a) ELSE Trimmed(SubSeq(a, 1, SetMin(EqAt(a)) - 1))
AttrHasVal(a) == EqAt(a) # {}
AttrVal(a) == Trimmed(SubSeq(a, SetMin(EqAt(a)) + 1, Len(a)))

\* an Expires=<val> attribute whose value no date format matches
BadExpires(a) ==
    /\ AttrHasVal(a) /\ AttrKey(a) = KEY_EXPIRES
    /\ parse_date_with_all_formats(AttrVal(a), Range(0, Len(AttrVal(a)))) = None

PairValid(t) == EqAt(FirstPiece(t)) # {} /\ PieceName(FirstPiece(t)) # << >>

RecognizedKeys ==
    {KEY_EXPIRES, KEY_MAX_AGE, KEY_DOMAIN, KEY_PATH, KEY_SECURE, KEY_HTTP_ONLY, KEY_SAME_SITE}
\* a Max-Age value that is not a number: a character other than a digit
\* after an optional leading '-', or no digit at all
MalformedMaxAge(a) ==
    /\ AttrHasVal(a) /\ AttrKey(a) = KEY_MAX_AGE
    /\ \/ \E k \in 1..Len(AttrVal(a)) : ~ IsDigit(AttrVal(a)[k]) /\ ~ (k = 1 /\ AttrVal(a)[k] = "-")
       \/ \A k \in 1..Len(AttrVal(a)) : ~ IsDigit(AttrVal(a)[k])
UnrecognizedSameSite(a) ==
    /\ AttrHasVal(a) /\ AttrKey(a) = KEY_SAME_SITE
    /\ \A v \in {STR_STRICT, STR_LAX, STR_NONE} : ~ eq_ignore_ascii_case(AttrVal(a), v)
\* unknown and wrongly-cased keys, a malformed Max-Age, an unrecognized SameSite value
IsNoise(a) == AttrKey(a) \notin RecognizedKeys \/ MalformedMaxAge(a) \/ UnrecognizedSameSite(a)
NotNoise(a) == ~ IsNoise(a)

\* what the accessors of an entity return
Observed(c) ==
    [name |-> name(c), value |-> value(c), expires |-> expires(c), max_age |-> max_age(c),
     domain |-> domain(c), path |-> path(c), secure |-> secure(c), http_only |-> http_only(c),
     same_site |-> same_site(c)]
ObservedFields == {"name", "value", "expires", "max_age", "domain", "path", "secure", "http_only", "same_site"}
\* the fields the noise attributes of the input are themselves about
NoiseFields ==
    (IF \E k \in 1..Len(attrs) : MalformedMaxAge(attrs[k]) THEN {"max_age"} ELSE {})
    \cup (IF \E k \in 1..Len(attrs) : UnrecognizedSameSite(attrs[k]) THEN {"same_site"} ELSE {})
\* the result of parsing the input without its noise attributes
WithoutNoise == Cookie_parse(JoinInput(nv, SelectSeq(attrs, NotNoise)), CHOOSE p \in Addrs : TRUE)
SameOutcome(r1, r2, except) ==
    /\ r1.tag = r2.tag /\ r1.err = r2.err
    /\ r1.tag = "Ok" =>
           \A F \in ObservedFields \ except :
               Observed(Unwrap(r1.cookie))[F] = Observed(Unwrap(r2.cookie))[F]

\* C6: a parse succeeds or returns MissingPair, EmptyName or InvalidDate,
\* never another error and never a fatal abort; InvalidDate exactly when the
\* name/value pair is valid and some Expires=<val> attribute, at any
\* position, has a value no date format matches; unknown or wrongly-cased
\* keys, a malformed Max-Age and an unrecognized SameSite value never fail
\* the parse and leave every other field as it would be without them.
C6_ErrorPolicy ==
    stage # "input" =>
        /\ first.tag \in {"Ok", "Err"}
        /\ first.tag = "Err" => first.err \in {"MissingPair", "EmptyName", "InvalidDate"}
        /\ first.tag = "Ok" => IsSome(first.cookie)
        /\ first.tag = "Err" => first.cookie = None
        /\ (first.err = "InvalidDate") <=>
               (PairValid(InputText) /\ \E k \in 1..Len(attrs) : BadExpires(attrs[k]))
        /\ SameOutcome(first, WithoutNoise, NoiseFields)

\* C6 witness: a noise attribute, then an Expires no format matches: InvalidDate
C6_Witness ==
    /\ stage = "parsed"
    /\ Len(attrs) = 2
    /\ IsNoise(attrs[1])
    /\ BadExpires(attrs[2])
    /\ first.err = "InvalidDate"

\* The Max-Age attribute texts of AttrTexts with the max_age the claim gives each
MaxAgeSamples ==
    { [attr |-> <<" ", "M", "a", "x", "-", "A", "g", "e", "=", "3", "6", "0", "0">>,
       expect |-> Some(<<"3", "6", "0", "0">>)],
      [attr |-> <<" ", "M", "a", "x", "-", "A", "g", "e", "=", "-", "1", "0", "0">>,
       expect |-> Some(<<"0">>)],
      [attr |-> <<" ", "M", "a", "x", "-", "A", "g", "e", "=", "a", "b", "c">>,
       expect |-> None],
      [attr |-> <<" ", "M", "a", "x", "-", "A", "g", "e", "=">>,
       expect |-> None],
      [attr |-> <<" ", "M", "a", "x", "-", "A", "g", "e", "=", "-">>,
       expect |-> Some(<<"0">>)],
      [attr |-> <<" ", "M", "a", "x", "-", "A", "g", "e", "=", "9", "9", "9", "9", "9", "9", "9", "9", "9", "9", "9", "9", "9", "9", "9", "9", "9", "9", "9", "9">>,
       expect |-> Some(U64_MAX_DIGITS)],
      [attr |-> <<" ", "M", "a", "x", "-", "A", "g", "e", "=", "0", "0", "7">>,
       expect |-> Some(<<"7">>)] }

MaxAgeAttrAt == {k \in 1..Len(attrs) : \E m \in MaxAgeSamples : m.attr = attrs[k]}
ClaimedMaxAge == (CHOOSE m \in MaxAgeSamples : m.attr = attrs[SetMin(MaxAgeAttrAt)]).expect

\* C7 as stated: with v the trimmed value of the one Max-Age attribute:
\* '-' and digits gives a zero duration, digits give that number of seconds
\* (u64::MAX when they overflow), and a value that is not a number (a
\* non-digit character, or no digits at all such as the empty value) leaves
\* max_age absent; the parse succeeds.
C7_Original ==
    (stage # "input" /\ nv \in NameVals /\ Cardinality(MaxAgeAttrAt) = 1) =>
        /\ Len(attrs) = 1 => first.tag = "Ok"
        /\ first.tag = "Ok" => max_age(First) = ClaimedMaxAge

ExpiresAttr(t) == << " " >> \o KEY_EXPIRES \o << "=" >> \o t

\* C8 as stated: an Expires value in RFC-1123 form with its GMT marker, a
\* valid date-time and the matching weekday parses, and expires() is that
\* instant.
C8_Original ==
    \A d \in Rfc1123Samples :
        (stage # "input" /\ nv \in NameVals /\ attrs = << ExpiresAttr(d.text) >>) =>
            /\ first.tag = "Ok"
            /\ expires(First) = Some(DateTimeExp(d.dt))

Second == Unwrap(reparsed.cookie)

\* C9 as stated: the serialisation of a parsed entity parses again, to an
\* entity with the same accessor values, whose serialisation is the same text.
C9_RoundTrip ==
    stage = "reparsed" =>
        /\ reparsed.tag = "Ok"
        /\ Observed(Second) = Observed(First)
        /\ fmt(Second) = text1

\* whether, and where first, a text holds another
IndexOfText(t, pat) ==
    IF \E k \in 1..(Len(t) - Len(pat) + 1) : SubSeq(t, k, k + Len(pat) - 1) = pat
    THEN SetMin({k \in 1..(Len(t) - Len(pat) + 1) : SubSeq(t, k, k + Len(pat) - 1) = pat})
    ELSE 0
ContainsText(t, pat) == IndexOfText(t, pat) > 0

\* The attributes in the canonical order, each with the text that opens it
\* and whether the entity's field calls for it
CanonicalOrder == << OUT_EXPIRES, OUT_MAX_AGE, OUT_DOMAIN, OUT_PATH, OUT_SECURE, OUT_HTTP_ONLY, OUT_SAME_SITE >>
FieldPresent(c) ==
    << IsSome(c.expires) /\ Unwrap(c.expires) # Session,
       IsSome(c.max_age), IsSome(c.domain), IsSome(c.path),
       c.secure = Some(TRUE), c.http_only = Some(TRUE), IsSome(c.same_site) >>
\* the stored text of a string field
Stored(c, f) == as_str(f, c.cookie_string)
Opt(b, t) == IF b THEN t ELSE << >>

\* C10: the serialised text is name=value followed by the attributes in the
\* order Expires, Max-Age, Domain, Path, Secure, HttpOnly, SameSite, each
\* present exactly when its field is: Expires only for an instant, Secure and
\* HttpOnly only when true, Domain as stored with its leading dot.
\* (No modelled name or value holds a "; "-text that opens an attribute.)
C10_Canonical ==
    IsSome(cookie) =>
        LET text == fmt(Self)
            present == FieldPresent(Self)
            at == [k \in 1..7 |-> IndexOfText(text, CanonicalOrder[k])]
        IN  /\ \A k \in 1..7 : (at[k] > 0) <=> present[k]
            /\ \A k \in 1..7 : \A m \in (k + 1)..7 : (present[k] /\ present[m]) => at[k] < at[m]
            /\ text =
                   name(Self) \o << "=" >> \o value(Self)
                   \o Opt(present[1], OUT_EXPIRES \o FormatRfc1123(Unwrap(Self.expires).dt) \o OUT_GMT)
                   \o Opt(present[2], OUT_MAX_AGE \o Unwrap(Self.max_age))
                   \o Opt(present[3], OUT_DOMAIN \o Stored(Self, Unwrap(Self.domain)))
                   \o Opt(present[4], OUT_PATH \o Stored(Self, Unwrap(Self.path)))
                   \o Opt(present[5], OUT_SECURE)
                   \o Opt(present[6], OUT_HTTP_ONLY)
                   \o Opt(present[7], OUT_SAME_SITE \o SameSiteDebug(Unwrap(Self.same_site)))

\* C10 witness: a session expiry and a false Secure render nothing, the
\* stored domain keeps its dot, Max-Age and SameSite are written
C10_Witness ==
    /\ IsSome(cookie)
    /\ Self.expires = Some(Session)
    /\ Self.secure = Some(FALSE)
    /\ IsSome(Self.domain) /\ Stored(Self, Unwrap(Self.domain))[1] = "."
    /\ IsSome(Self.same_site)
    /\ ContainsText(fmt(Self), OUT_DOMAIN \o << "." >>)

\* the address range of n lies entirely within the address range of h
Within(n, h) == h.ptr <= n.ptr /\ n.ptr + n.len <= h.ptr + h.len

\* C11: CookieStr::indexed(needle, haystack) returns an Offset exactly when
\* the needle's address range lies entirely within the haystack's; the
\* Offset then starts at needle address - haystack address and ends at
\* start + needle length, and resolving it against the haystack returns the
\* needle's text; for a needle outside the haystack's memory it returns
\* nothing, whatever the needle's text.
C11_IndexedByAddress ==
    found.called =>
        /\ IsSome(found.result) <=> Within(needle, haystack)
        /\ Within(needle, haystack) =>
               /\ found.result =
                      Some(Indexed(needle.ptr - haystack.ptr,
                                   needle.ptr - haystack.ptr + needle.len))
               /\ as_str(Unwrap(found.result), Some(Borrowed(StrText(haystack))))
                      = StrText(needle)
        /\ ~ Within(needle, haystack) => found.result = None

\* C11 witness: a needle outside the haystack's memory whose text the
\* haystack's text holds: no Offset
C11_Witness ==
    /\ found.called
    /\ needle.len > 0
    /\ needle.ptr >= haystack.ptr + haystack.len
    /\ ContainsText(StrText(haystack), StrText(needle))
    /\ found.result = None

\* what the _raw accessors of an entity return
ObservedRaw(c) ==
    [name |-> name_raw(c), value |-> value_raw(c), domain |-> domain_raw(c), path |-> path_raw(c)]
NoRaw == [name |-> None, value |-> None, domain |-> None, path |-> None]

\* C12: into_owned changes no observable value: every accessor and the
\* serialised text return after it what they returned before it, and the
\* only change is that every _raw accessor returns nothing afterwards; a
\* _raw accessor returns something only while the source buffer is the
\* original borrowed text.
C12_IntoOwnedFrame ==
    /\ (IsSome(cookie) /\ last.op = "into_owned") =>
           /\ Observed(Self) = Observed(Before)
           /\ fmt(Self) = fmt(Before)
           /\ ObservedRaw(Self) = NoRaw
    /\ (IsSome(cookie) /\ ObservedRaw(Self) # NoRaw) =>
           /\ IsSome(Self.cookie_string)
           /\ Unwrap(Self.cookie_string).own = "Borrowed"

\* C12 witness: into_owned on a parsed entity whose name and domain had raw
\* text, and one of whose fields a setter had replaced
C12_Witness ==
    /\ IsSome(cookie) /\ last.op = "into_owned"
    /\ IsSome(name_raw(Before))
    /\ IsSome(domain_raw(Before))
    /\ mutated # {}
    /\ IsSome(expires(Self))
    /\ name_raw(Self) = None

====
